---- MODULE Spec2Model ----
\* Model of watcher.py: the segment cache, check_if_url_changed, the
\* check_change batch loop with the selenium driver lifecycle, and the
\* segment construction loop (normalizer).
EXTENDS Integers, Sequences, FiniteSets, TLC

\* ---------------------------------------------------------------------
\* Values
\* ---------------------------------------------------------------------

Urls == {"u1"}
\* A valid CSS selector list written over two lines in the page config
NLRule == "h1,\nh2"
ValidRules == {"html", "h1", NLRule}
InvalidRule == "[["
Rules == ValidRules \cup {InvalidRule}
\* Normalized segments a page can render to (the empty one: zero matches)
Segs == {<<>>, <<"a">>, <<"b">>}

\* remove_css_selectors values: none, an invalid one, a valid one
RemoveLists == {{}, {InvalidRule}, {"p"}}

\* page_load_wait_time values as they come from the JSON config: an int,
\* a negative int, a string
Waits == {"int5", "int-1", "str5"}

\* Exceptions a build can raise for an invalid selector: bs4 < 4.7 raises
\* ValueError, bs4 >= 4.7 (soupsieve) raises SelectorSyntaxError.
SelectorErrors == {"ValueError", "SelectorSyntaxError"}
\* webdriver.Firefox(...) construction, and driver.get / execute_script
StartOutcomes == {"ok", "WebDriverException"}
GetOutcomes == {"ok", "WebDriverException"}

\* The exceptions check_change catches
Caught == {"ValueError", "NoSuchElementException"}

DiffResults == {"Initialized", "Unchanged", "Changed", "RuleChanged"}

\* A cache file: absent, or its sequence of lines (newlines stripped)
NoFile == [exists |-> FALSE, lines |-> <<>>]
File(ls) == [exists |-> TRUE, lines |-> ls]

\* The physical lines a string written to the file occupies: readlines()
\* splits NLRule at its newline; the other strings have none.
SplitLines(s) == IF s = NLRule THEN <<"h1,", "h2">> ELSE <<s>>

\* write_cache: css_selector + "\n", then each segment line newline-terminated
write_cache(css_selector, content) == File(SplitLines(css_selector) \o content)

\* read_cache: (False, False) when absent; lines[0] raises IndexError on an
\* empty file; otherwise the first line and the remaining lines.
read_cache(f) ==
  IF ~f.exists THEN [raised |-> "none", found |-> FALSE, rule |-> "", seg |-> <<>>]
  ELSE IF Len(f.lines) = 0 THEN [raised |-> "IndexError", found |-> FALSE, rule |-> "", seg |-> <<>>]
  ELSE [raised |-> "none", found |-> TRUE, rule |-> Head(f.lines), seg |-> Tail(f.lines)]

\* Python truthiness of cached_segment: False and [] are both falsy
SegmentFalsy(rc) == ~rc.found \/ rc.seg = <<>>

\* get_file_name_for_url: the sha256 hex digest of the URL
get_file_name_for_url(u) == "sha256(" \o u \o ")"

\* os.path.basename of the diff file path (lines 175, 188); <ms> stands for
\* int(time.time() * 1000)
DiffFileName(u) == get_file_name_for_url(u) \o "_diff_<ms>.html"

\* check_if_url_changed after rendering and normalizing: the cache part.
\* out is a DiffResult or the name of the exception raised; name is the
\* file name returned; diff tells whether the diff file was written.
CacheCompareMutant(u, f, css_selector, content) ==
  LET rc == read_cache(f) IN
  IF rc.raised # "none" THEN [out |-> rc.raised, file |-> f, diff |-> FALSE, name |-> ""]
  ELSE IF SegmentFalsy(rc)
    THEN [out |-> "Initialized", file |-> write_cache(css_selector, content), diff |-> FALSE,
          name |-> get_file_name_for_url(u)]
  ELSE IF css_selector # rc.rule
    THEN [out |-> "RuleChanged", file |-> NoFile, diff |-> FALSE, name |-> ""]
  ELSE IF rc.seg # content
    THEN [out |-> "Changed", file |-> write_cache(css_selector, content), diff |-> TRUE,
          name |-> get_file_name_for_url(u)]
  ELSE [out |-> "Unchanged", file |-> write_cache(css_selector, content), diff |-> FALSE, name |-> ""]

CacheCompare(u, f, css_selector, content) ==
  LET rc == read_cache(f) IN
  IF rc.raised # "none" THEN [out |-> rc.raised, file |-> f, diff |-> FALSE, name |-> ""]
  ELSE IF SegmentFalsy(rc)
    THEN [out |-> "Initialized", file |-> write_cache(css_selector, content), diff |-> FALSE,
          name |-> get_file_name_for_url(u)]
  ELSE IF css_selector # rc.rule
    THEN [out |-> "RuleChanged", file |-> NoFile, diff |-> FALSE, name |-> ""]
  ELSE IF rc.seg # content
    THEN [out |-> "Changed", file |-> write_cache(css_selector, content), diff |-> TRUE,
          name |-> DiffFileName(u)]
  ELSE [out |-> "Unchanged", file |-> write_cache(css_selector, content), diff |-> FALSE, name |-> ""]

\* time.sleep(wait_time): ValueError on a negative length, TypeError on a str
sleep_raises(w) ==
  CASE w = "int-1" -> "ValueError"
    [] w = "str5" -> "TypeError"
    [] OTHER -> "none"

\* get_rendered_dom: creates the driver when there is none (the global stays
\* None when construction raises), then get, sleep and execute_script.
get_rendered_dom(drv, w, start, get) ==
  IF drv = "none" /\ start # "ok" THEN [raised |-> start, driver |-> "none"]
  ELSE IF get # "ok" THEN [raised |-> get, driver |-> "open"]
  ELSE [raised |-> sleep_raises(w), driver |-> "open"]

\* The segment loop (lines 128-151) raises when there is a part to process
\* and a remove selector is invalid, or (bs4 builds that fail to prettify a
\* decomposed tag) when a remove selector decomposed the part itself.
\* content # <<>> exactly when some matched part was processed.
segment_raises(removes, content, selErr, selfDec) ==
  IF content # <<>> /\ InvalidRule \in removes THEN selErr
  ELSE IF content # <<>> /\ removes # {} /\ selfDec THEN "TypeError"
  ELSE "none"

\* Whole check_if_url_changed for a page (css_selector, remove_css_selectors,
\* wait_time) whose DOM normalizes to content. env: the outcomes of driver
\* construction, driver.get, the build's selector error and whether a
\* remove selector decomposes the part itself on a build where that raises.
check_if_url_changed(u, f, drv, css_selector, removes, w, content, env) ==
  LET r == get_rendered_dom(drv, w, env.start, env.get)
      seg == segment_raises(removes, content, env.selErr, env.selfDec)
  IN
  IF r.raised # "none"
    THEN [out |-> r.raised, file |-> f, diff |-> FALSE, name |-> "", driver |-> r.driver]
  ELSE IF css_selector = InvalidRule
    THEN [out |-> env.selErr, file |-> f, diff |-> FALSE, name |-> "", driver |-> r.driver]
  ELSE IF seg # "none"
    THEN [out |-> seg, file |-> f, diff |-> FALSE, name |-> "", driver |-> r.driver]
  ELSE LET c == CacheCompare(u, f, css_selector, content) IN
       [out |-> c.out, file |-> c.file, diff |-> c.diff, name |-> c.name, driver |-> r.driver]

Envs == [start : StartOutcomes, get : GetOutcomes, selErr : SelectorErrors, selfDec : BOOLEAN]

\* ---------------------------------------------------------------------
\* Specification 1: repeated checks of a URL against its cache file
\* ---------------------------------------------------------------------

VARIABLES cache, cdriver, lastUrl, lastRule, lastSeg, prevFile, lastOut, lastName, newDiff

cvars == <<cache, cdriver, lastUrl, lastRule, lastSeg, prevFile, lastOut, lastName, newDiff>>

VARIABLES cur, precip, defRecip, defWait, bcache, pc, pi, att, driver, created,
          released, outcome, calls, startDiff, sent

bvars == <<cur, precip, defRecip, defWait, bcache, pc, pi, att, driver, created,
           released, outcome, calls, startDiff, sent>>

VARIABLES n, rem, removedAt, idx, content, outLines, npc

nvars == <<n, rem, removedAt, idx, content, outLines, npc>>

vars == <<cvars, bvars, nvars>>

CInit ==
  /\ cache = [u \in Urls |-> NoFile]
  /\ cdriver = "none"
  /\ lastUrl = "u1"
  /\ lastRule = ""
  /\ lastSeg = <<>>
  /\ prevFile = NoFile
  /\ lastOut = "none"
  /\ lastName = ""
  /\ newDiff = FALSE

\* The results check_if_url_changed can have for URL u and a page
CheckResults(u, r, rm, w, s) ==
  {check_if_url_changed(u, cache[u], cdriver, r, rm, w, s, env) : env \in Envs}

\* One call of check_if_url_changed
Check ==
  \E u \in Urls, r \in Rules, rm \in RemoveLists, w \in Waits, s \in Segs :
  \E res \in CheckResults(u, r, rm, w, s) :
    /\ cache' = [cache EXCEPT ![u] = res.file]
    /\ cdriver' = res.driver
    /\ lastUrl' = u
    /\ lastRule' = r
    /\ lastSeg' = s
    /\ prevFile' = cache[u]
    /\ lastOut' = res.out
    /\ lastName' = res.name
    /\ newDiff' = res.diff
    /\ UNCHANGED <<bvars, nvars>>

\* A check whose process is killed inside write_cache (lines 160 or 171)
\* after open(filepath, "w") created or truncated the file: the file holds
\* what the write buffer flushed before the kill, a prefix of the lines
\* being written (empty while the segment fits in the buffer), and the
\* process (with its driver) is gone.
WriteInterrupted ==
  \E u \in Urls, r \in Rules, rm \in RemoveLists, w \in Waits, s \in Segs :
  \E res \in CheckResults(u, r, rm, w, s) :
  \E k \in 0..Len(res.file.lines) :
    /\ res.out \in {"Initialized", "Changed", "Unchanged"}
    /\ cache' = [cache EXCEPT ![u] = File(SubSeq(res.file.lines, 1, k))]
    /\ cdriver' = "none"
    /\ lastUrl' = u
    /\ lastRule' = r
    /\ lastSeg' = s
    /\ prevFile' = cache[u]
    /\ lastOut' = "killed"
    /\ lastName' = ""
    /\ newDiff' = FALSE
    /\ UNCHANGED <<bvars, nvars>>

\* A check whose process is killed after open(diff_file_path, "w") (line 178)
\* created the diff file: the cache was already rewritten (line 171), the
\* diff file exists and nothing is returned.
DiffWriteInterrupted ==
  \E u \in Urls, r \in Rules, rm \in RemoveLists, w \in Waits, s \in Segs :
  \E res \in CheckResults(u, r, rm, w, s) :
    /\ res.out = "Changed"
    /\ cache' = [cache EXCEPT ![u] = res.file]
    /\ cdriver' = "none"
    /\ lastUrl' = u
    /\ lastRule' = r
    /\ lastSeg' = s
    /\ prevFile' = cache[u]
    /\ lastOut' = "killed"
    /\ lastName' = ""
    /\ newDiff' = TRUE
    /\ UNCHANGED <<bvars, nvars>>

\* End of the script's run: clear_old_files deletes the cache files older
\* than --max-age (any of them, the ones just written included when it is 0
\* or negative), close_driver quits the driver and the process exits; the
\* next check runs in a new process whose global driver is None.
RunEnd ==
  /\ \E old \in SUBSET Urls :
       cache' = [u \in Urls |-> IF u \in old THEN NoFile ELSE cache[u]]
  /\ cdriver' = "none"
  /\ lastOut' = "none"
  /\ lastName' = ""
  /\ newDiff' = FALSE
  /\ UNCHANGED <<lastUrl, lastRule, lastSeg, prevFile>>
  /\ UNCHANGED <<bvars, nvars>>

CNext == Check \/ WriteInterrupted \/ DiffWriteInterrupted \/ RunEnd

\* The last check got past rendering and segment construction (read_cache ran)
ReachedCache == lastOut \in DiffResults \cup {"IndexError"}

\* C1: a check with rule R2 of a URL whose entry was written with R1 # R2
\* returns RuleChanged and leaves no cache entry; a check of a URL with no
\* entry returns Initialized and writes an entry with the current rule.
C1_RuleChangeRecovery ==
  /\ (ReachedCache /\ prevFile.exists /\ Len(prevFile.lines) > 0
        /\ Head(prevFile.lines) # lastRule)
       => (lastOut = "RuleChanged" /\ ~cache[lastUrl].exists)
  /\ (ReachedCache /\ ~prevFile.exists)
       => (lastOut = "Initialized" /\ cache[lastUrl] = write_cache(lastRule, lastSeg))

\* C2: a check whose URL already has the entry (current rule, same segment)
\* returns Unchanged and leaves the cache file identical.
C2_Idempotence ==
  (ReachedCache /\ prevFile = write_cache(lastRule, lastSeg))
    => (lastOut = "Unchanged" /\ cache[lastUrl] = prevFile)

\* C7: a check of a URL whose cache file is empty (partial) re-initializes the
\* entry with the current rule and segment and returns Initialized.
C7_CorruptionRecovery ==
  (ReachedCache /\ prevFile = File(<<>>))
    => (lastOut = "Initialized" /\ cache[lastUrl] = write_cache(lastRule, lastSeg))

NumPages == 2

\* range(2) in check_change: one retry after SELECTOR_CHANGED
RetryLimitMutant == 1

RetryLimit == 2

\* The configuration held while no page is being retried
NoPage == [url |-> "u1", css |-> "absent", recip |-> "absent", wait |-> "absent", removes |-> {}]

\* Page configurations: css_selector, recipient, page_load_wait_time and
\* remove_css_selectors may be absent
PageSpecs == [url : Urls, css : {"absent"} \cup Rules, recip : {"absent", "", "r"},
              wait : {"absent"} \cup Waits, removes : RemoveLists]

\* page.get("css_selector", "html")
CssSelector(p) == IF p.css = "absent" THEN "html" ELSE p.css

\* page.get("page_load_wait_time", default_page_load_wait_time)
WaitTime(p, dflt) == IF p.wait = "absent" THEN dflt ELSE p.wait

\* page.get("recipient", default_recipient); None is modelled as ""
RecipientOfMutant(p, dflt) == dflt

RecipientOf(p, dflt) == IF p.recip = "absent" THEN dflt ELSE p.recip

\* send_notification: returns early when the recipient is empty
send_notification(log, recipient, msg) ==
  IF recipient = "" THEN log ELSE Append(log, [msg EXCEPT !.to = recipient])

\* Cache files a previous run can leave behind
PriorFiles == {NoFile, File(<<>>)} \cup {write_cache(r, s) : r \in ValidRules, s \in Segs}

\* The cache file holds a selector line different from the page's selector
RuleDiffers(f, css) == f.exists /\ Len(f.lines) > 0 /\ Head(f.lines) # css

\* The pages are processed one at a time and each page's configuration is
\* only read while it is processed: cur is the configuration of page pi
\* (drawn from PageSpecs when its first check starts) and precip[j] the
\* recipient field of page j.
BInit ==
  /\ cur = NoPage
  /\ precip = [j \in 1..NumPages |-> "absent"]
  /\ defRecip \in {"", "d"}
  /\ defWait \in {"int5", "int-1"}
  /\ bcache \in [Urls -> PriorFiles]
  /\ pc = "config"
  /\ pi = 1
  /\ att = 0
  /\ driver = "none"
  /\ created = 0
  /\ released = 0
  /\ outcome = [j \in 1..NumPages |-> "pending"]
  /\ calls = [j \in 1..NumPages |-> 0]
  /\ startDiff = [j \in 1..NumPages |-> FALSE]
  /\ sent = <<>>

\* close_driver: quit the driver if one was created
close_driver ==
  /\ driver' = IF driver = "open" THEN "closed" ELSE driver
  /\ released' = IF driver = "open" THEN released + 1 ELSE released

\* parse_pages_config succeeds; or raises ValueError: the error is sent to
\* the default recipient, the driver closed and the script exits with 1; or
\* (page entries that are not objects) raises TypeError / AttributeError,
\* which __main__ does not catch: the script dies with no notification.
LoadConfig ==
  /\ pc = "config"
  /\ \E res \in {"ok", "ValueError", "TypeError"} :
       CASE res = "ok" ->
              /\ pc' = "loop"
              /\ UNCHANGED <<driver, released, sent>>
         [] res = "ValueError" ->
              /\ sent' = send_notification(sent, defRecip,
                            [page |-> 0, kind |-> "config", to |-> "", mentions |-> {"error"}])
              /\ close_driver
              /\ pc' = "exited"
         [] OTHER ->
              /\ pc' = "aborted"
              /\ UNCHANGED <<driver, released, sent>>
  /\ UNCHANGED <<cur, precip, defRecip, defWait, bcache, pi, att, created, outcome, calls, startDiff>>
  /\ UNCHANGED <<cvars, nvars>>

\* One iteration of the `for _ in range(2)` loop of check_change for page pi:
\* check_if_url_changed (creating the driver on first use) and the handling
\* of its result or exception.
CheckPage ==
  /\ pc = "loop"
  /\ pi <= NumPages
  /\ \E p \in (IF att = 0 THEN PageSpecs ELSE {cur}) :
     \E res \in {check_if_url_changed(p.url, bcache[p.url], driver, CssSelector(p), p.removes,
                                      WaitTime(p, defWait), s, env) : s \in Segs, env \in Envs} :
       LET css == CssSelector(p)
           to == RecipientOf(p, defRecip)
           nextPage == /\ outcome' = [outcome EXCEPT ![pi] = res.out]
                       /\ pi' = pi + 1
                       /\ att' = 0
       IN
       \* the configuration is kept only while the page is retried
       /\ cur' = IF res.out = "RuleChanged" /\ att + 1 < RetryLimit THEN p ELSE NoPage
       /\ precip' = [precip EXCEPT ![pi] = p.recip]
       /\ driver' = res.driver
       /\ created' = IF driver = "none" /\ res.driver = "open" THEN created + 1 ELSE created
       /\ calls' = [calls EXCEPT ![pi] = @ + 1]
       /\ startDiff' = IF att = 0
                        THEN [startDiff EXCEPT ![pi] = RuleDiffers(bcache[p.url], css)]
                        ELSE startDiff
       /\ bcache' = [bcache EXCEPT ![p.url] = res.file]
       /\ CASE res.out \in Caught ->
                 /\ sent' = send_notification(sent, to,
                              [page |-> pi, kind |-> "error", to |-> "", mentions |-> {"name", "url", "error"}])
                 /\ nextPage
                 /\ UNCHANGED pc
            [] res.out = "Initialized" ->
                 /\ sent' = send_notification(sent, to,
                              [page |-> pi, kind |-> "init", to |-> "", mentions |-> {"name", "url", "rule"}])
                 /\ nextPage
                 /\ UNCHANGED pc
            [] res.out = "Changed" ->
                 /\ sent' = send_notification(sent, to,
                              [page |-> pi, kind |-> "change", to |-> "", mentions |-> {"name", "url"}])
                 /\ nextPage
                 /\ UNCHANGED pc
            [] res.out = "Unchanged" ->
                 /\ nextPage
                 /\ UNCHANGED <<pc, sent>>
            [] res.out = "RuleChanged" ->
                 /\ IF att + 1 < RetryLimit
                    THEN /\ att' = att + 1
                         /\ UNCHANGED <<pi, outcome>>
                    ELSE nextPage
                 /\ UNCHANGED <<pc, sent>>
            [] OTHER ->
                 \* an exception check_change does not catch: the script dies
                 /\ outcome' = [outcome EXCEPT ![pi] = res.out]
                 /\ pc' = "aborted"
                 /\ UNCHANGED <<pi, att, sent>>
  /\ UNCHANGED <<defRecip, defWait, released>>
  /\ UNCHANGED <<cvars, nvars>>

\* After the batch: clear_old_files on the cache and diff directories (any
\* file may be older than --max-age, which may be 0 or negative), then
\* close_driver.
FinishRun ==
  /\ pc = "loop"
  /\ pi > NumPages
  /\ \E old \in SUBSET Urls :
       bcache' = [u \in Urls |-> IF u \in old THEN NoFile ELSE bcache[u]]
  /\ close_driver
  /\ pc' = "done"
  /\ UNCHANGED <<cur, precip, defRecip, defWait, pi, att, created, outcome, calls, startDiff, sent>>
  /\ UNCHANGED <<cvars, nvars>>

BNext == LoadConfig \/ CheckPage \/ FinishRun

\* A fixed state of the batch variables
BIdle ==
  /\ cur = NoPage
  /\ precip = [j \in 1..NumPages |-> "absent"]
  /\ defRecip = ""
  /\ defWait = "int5"
  /\ bcache = [u \in Urls |-> NoFile]
  /\ pc = "config"
  /\ pi = 1
  /\ att = 0
  /\ driver = "none"
  /\ created = 0
  /\ released = 0
  /\ outcome = [j \in 1..NumPages |-> "pending"]
  /\ calls = [j \in 1..NumPages |-> 0]
  /\ startDiff = [j \in 1..NumPages |-> FALSE]
  /\ sent = <<>>

\* A fixed state of the segment construction variables
NIdle ==
  /\ n = 0
  /\ rem = <<>>
  /\ removedAt = <<>>
  /\ idx = 1
  /\ content = <<>>
  /\ outLines = <<>>
  /\ npc = "loop"

\* Each specification keeps the other specifications' variables fixed
CSpecInit == CInit /\ BIdle /\ NIdle

CSpec == CSpecInit /\ [][CNext]_vars

BSpecInit == BInit /\ CInit /\ NIdle

BSpec == BSpecInit /\ [][BNext]_vars

\* Notifications sent for page j
SentFor(j) == SelectSeq(sent, LAMBDA m : m.page = j)

\* Per-page errors: render failures (the page or element cannot be obtained)
\* and invalid selection or remove rules
PerPageErrors == {"WebDriverException", "NoSuchElementException"} \cup SelectorErrors

\* C3: check_change calls check at most twice per page, never ends a page on
\* RuleChanged, and a page whose cache held a different selector ends
\* Initialized when no error occurred.
C3_RetryBounded ==
  \A j \in 1..NumPages :
    /\ calls[j] <= 2
    /\ outcome[j] # "RuleChanged"
    /\ (startDiff[j] /\ outcome[j] \in DiffResults) => outcome[j] = "Initialized"

C3_Witness == \E j \in 1..NumPages : startDiff[j] /\ calls[j] = 2 /\ outcome[j] = "Initialized"

\* C4: a per-page error (render failure, invalid selection or remove rule)
\* never aborts the batch: the run does not die on it, it is notified to the
\* page's recipient (or the default) and the later pages are still checked.
C4_ErrorsDoNotAbort ==
  /\ (pc = "aborted" /\ pi <= NumPages) => outcome[pi] \notin PerPageErrors
  /\ \A j \in 1..NumPages :
       LET to == IF precip[j] = "absent" THEN defRecip ELSE precip[j] IN
       (outcome[j] \in PerPageErrors /\ to # "")
         => \E k \in 1..Len(sent) : /\ sent[k].page = j
                                     /\ sent[k].kind = "error"
                                     /\ sent[k].to = to

\* C5: the driver is created at most once per run and no run ends with the
\* driver created but not quit.
C5_DriverReleased ==
  /\ created <= 1
  /\ released <= 1
  /\ pc \in {"done", "exited", "aborted"} => driver # "open"

\* C9: Initialized sends one notification naming page, URL and selector,
\* Changed one naming page and URL, Unchanged none; each goes to the page's
\* recipient (default if absent) and none is sent to an empty recipient.
C9_NotificationMapping ==
  \A j \in 1..NumPages :
    LET to == IF precip[j] = "absent" THEN defRecip ELSE precip[j]
        ns == SentFor(j)
    IN /\ outcome[j] = "Initialized" =>
            IF to = "" THEN ns = <<>>
            ELSE /\ Len(ns) = 1 /\ ns[1].kind = "init" /\ ns[1].to = to
                 /\ {"name", "url", "rule"} \subseteq ns[1].mentions
       /\ outcome[j] = "Changed" =>
            IF to = "" THEN ns = <<>>
            ELSE /\ Len(ns) = 1 /\ ns[1].kind = "change" /\ ns[1].to = to
                 /\ {"name", "url"} \subseteq ns[1].mentions
       /\ outcome[j] = "Unchanged" => ns = <<>>

C9_Witness ==
  \E j \in 1..NumPages :
    /\ precip[j] = "r" /\ defRecip = "d"
    /\ outcome[j] = "Initialized" /\ Len(SentFor(j)) = 1

\* ---------------------------------------------------------------------
\* Specification 3: the segment construction loop of check_if_url_changed
\* ---------------------------------------------------------------------

MaxNodes == 3

\* The separator line appended by the code
SEPARATOR == "##### SEGEMENT SEPARATOR #####"

\* part.prettify().split("\n") filtered of empty lines, for matched node i
NodeOut(k) == <<"<n" \o ToString(k) \o ">", "</n" \o ToString(k) \o ">">>

\* prettify() of a tag decomposed by its own remove selector: bs4 builds
\* that render a cleared tag as <None> produce these lines; builds that
\* concatenate the cleared name raise TypeError.
DecomposedOut == <<"<None>", "</None>">>
DecomposedOutcomes == {"lines", "TypeError"}

\* rem[i]: the matched nodes the remove_css_selectors of node i decompose
\* when searched in node i's parent: node i itself, later nodes, or earlier
\* nodes already serialized
Removals(m) == [1..m -> SUBSET (1..m)]


NInit ==
  /\ n \in 0..MaxNodes
  /\ rem \in Removals(n)
  /\ removedAt = [i \in 1..n |-> 0]
  /\ idx = 1
  /\ content = <<>>
  /\ outLines = [i \in 1..n |-> 0]
  /\ npc = "loop"

\* One iteration of `for idx, part in enumerate(relevant_parts)`
SegmentStep ==
  /\ npc = "loop"
  /\ idx <= n
  /\ IF removedAt[idx] # 0
     THEN \* part.decomposed: continue
          /\ idx' = idx + 1
          /\ UNCHANGED <<removedAt, content, outLines, npc>>
     ELSE LET ra == [i \in 1..n |-> IF removedAt[i] = 0 /\ i \in rem[idx]
                                     THEN idx ELSE removedAt[i]]
              sep == IF idx # n THEN <<SEPARATOR>> ELSE <<>>
          IN /\ removedAt' = ra
             /\ IF ra[idx] # 0
                THEN \E o \in DecomposedOutcomes :
                       IF o = "lines"
                       THEN /\ content' = content \o DecomposedOut \o sep
                            /\ outLines' = [outLines EXCEPT ![idx] = Len(DecomposedOut)]
                            /\ idx' = idx + 1
                            /\ UNCHANGED npc
                       ELSE /\ npc' = "raised"
                            /\ UNCHANGED <<content, outLines, idx>>
                ELSE /\ content' = content \o NodeOut(idx) \o sep
                     /\ outLines' = [outLines EXCEPT ![idx] = Len(NodeOut(idx))]
                     /\ idx' = idx + 1
                     /\ UNCHANGED npc
  /\ UNCHANGED <<n, rem>>
  /\ UNCHANGED <<cvars, bvars>>

\* The loop is over: the segment is complete
SegmentDone ==
  /\ npc = "loop"
  /\ idx > n
  /\ npc' = "done"
  /\ UNCHANGED <<n, rem, removedAt, idx, content, outLines>>
  /\ UNCHANGED <<cvars, bvars>>

NNext == SegmentStep \/ SegmentDone

\* Fixed states of the other specifications' variables
NSpecInit == NInit /\ CInit /\ BIdle

NSpec == NSpecInit /\ [][NNext]_vars

\* The separator line the claim names
ClaimSeparator == "##### SEGMENT SEPARATOR #####"

\* A separator line, as written by the code or as named by the claim
IsSeparator(l) == l \in {SEPARATOR, ClaimSeparator}

\* Matched nodes that emitted lines
Emitted == {i \in 1..n : outLines[i] > 0}

\* C6: in the finished segment every separator line is exactly
\* "##### SEGMENT SEPARATOR #####", no separator is first or last, none
\* follows another, and there is one fewer separator than emitting nodes.
C6_Separators ==
  npc = "done" =>
    LET seps == {k \in 1..Len(content) : IsSeparator(content[k])} IN
    /\ \A k \in seps : content[k] = ClaimSeparator
    /\ content # <<>> => (1 \notin seps /\ Len(content) \notin seps)
    /\ \A k \in seps : k + 1 \notin seps
    /\ Cardinality(Emitted) > 0 => Cardinality(seps) = Cardinality(Emitted) - 1

\* C10: a matched node decomposed by a remove selector while it or an earlier
\* node was processed contributes no lines to the segment.
C10_ExcludedNodesSkipped ==
  \A i \in 1..n : (removedAt[i] # 0 /\ removedAt[i] <= i) => outLines[i] = 0

====
